---- MODULE Spec2Model ----
(***************************************************************************)
(* Lead scoring pipeline: the client batch orchestrator (processLeads /    *)
(* processLead in client/src/lib/lead-processor.ts) talking to the         *)
(* /api/analyze-lead handler (server/routes.ts), which calls the external  *)
(* text-generation service with a timeout race and a bounded retry loop.   *)
(*                                                                         *)
(* Numbers that may be fractional (scores as they come out of the AI       *)
(* payload) are carried in halves: the JSON number x is Num(2x).  Scores   *)
(* after Math.round are plain integers.  A JavaScript string inside a      *)
(* JSON value is a sequence of text chunks, so that a template with        *)
(* interpolated parts is the concatenation of its parts; <<>> is "".       *)
(***************************************************************************)
EXTENDS Integers, Sequences, FiniteSets, TLC

(* ---------------- bounds of the model ---------------- *)
MaxLeads == 3
MaxOrphanCalls == 1
MaxClientTimeouts == 1
MaxScoreHalves == 203
MaxScorerRuns == 2

(* ---------------- program constants ---------------- *)
batchSize == 2
maxAttempts == 3
MinRubricLen == 10
MaxRubricLen == 1000
MaxCriteria == 5
QualifyThreshold == 60
ClientBaseScore == 45
ServerBaseScore == 50

Min(a, b) == IF a < b THEN a ELSE b
Max(a, b) == IF a > b THEN a ELSE b

(* ---------------- JSON values ---------------- *)
Undefined == [t |-> "undefined"]
Null == [t |-> "null"]
Num(h) == [t |-> "number", h |-> h]
Bool(b) == [t |-> "boolean", b |-> b]
Str(s) == [t |-> "string", s |-> s]
Arr(a) == [t |-> "array", a |-> a]

\* JavaScript truthiness of a JSON value
Truthy(v) ==
  CASE v.t = "number" -> v.h # 0
    [] v.t = "boolean" -> v.b
    [] v.t = "string" -> v.s # <<>>
    [] v.t = "array" -> TRUE
    [] v.t = "object" -> TRUE
    [] OTHER -> FALSE

\* String.prototype.trim on the strings the model uses
Trim(s) ==
  CASE s = <<" ">> -> <<>>
    [] s = <<" fit ">> -> <<"fit">>
    [] OTHER -> s

\* Math.round of a number carried in halves: floor(x + 0.5)
MathRound(h) == (h + 1) \div 2

\* Math.max(0, Math.min(100, n))
ClampNoUpper(n) == Max(0, n)
Clamp(n) == Max(0, Min(100, n))

\* Array.prototype.slice(0, n)
Slice0(a, n) == SubSeq(a, 1, Min(n, Len(a)))

\* (c) => typeof c === 'string' && c.trim()
IsNonBlankString(c) == c.t = "string" /\ Trim(c.s) # <<>>

\* Array.prototype.filter with the predicate above
RECURSIVE FilterStrings(_)
FilterStrings(a) ==
  IF a = <<>> THEN <<>>
  ELSE IF IsNonBlankString(Head(a)) THEN <<Head(a)>> \o FilterStrings(Tail(a))
       ELSE FilterStrings(Tail(a))

(* ---------------- leads and rubric ---------------- *)
\* An absent optional field is the empty string (falsy, like undefined).
TechWords == {"Technology"}
EnterpriseWords == {"Enterprise"}
CeoFounderWords == {"CEO"}
DirectorWords == {"Director"}

LeadFull == [id |-> "a", industry |-> "Technology", companySize |-> "Enterprise",
             title |-> "CEO", phone |-> "", email |-> "a@x.io", contactName |-> "Ann"]
LeadBare == [id |-> "b", industry |-> "", companySize |-> "",
             title |-> "", phone |-> "", email |-> "", contactName |-> ""]
LeadNoId == [id |-> "", industry |-> "Retail", companySize |-> "",
             title |-> "", phone |-> "", email |-> "c@x.io", contactName |-> ""]
LeadDirector == [id |-> "d", industry |-> "", companySize |-> "",
                 title |-> "Director", phone |-> "555", email |-> "", contactName |-> ""]

\* The input lists are the windows of a roster that is read cyclically, so
\* that every lead occurs at every position of a batch next to a different
\* lead.
Roster == <<LeadFull, LeadNoId, LeadBare>>
Window(start, n) == [k \in 1..n |-> Roster[((start + k - 2) % Len(Roster)) + 1]]
LeadLists == {Window(start, n) : start \in 1..Len(Roster), n \in 0..MaxLeads}

\* The rubric texts are carried by their lengths.
RubricOk == [businessDescription |-> 10, campaignGoals |-> 10]
RubricShortDescription == [businessDescription |-> 9, campaignGoals |-> 10]
RubricShortGoals == [businessDescription |-> 10, campaignGoals |-> 9]

(* ---------------- server: /api/analyze-lead, pure parts ---------------- *)
\* leadAnalysisSchema.safeParse(req.body).success
leadAnalysisSchema(lead, businessSetup) ==
  /\ lead.id # ""
  /\ businessSetup.businessDescription >= MinRubricLen
  /\ businessSetup.businessDescription <= MaxRubricLen
  /\ businessSetup.campaignGoals >= MinRubricLen
  /\ businessSetup.campaignGoals <= MaxRubricLen

\* routes.ts 71-79: lead.phone || lead.email || lead.contactName
hasContactInfoAnyField(lead) == \E f \in DOMAIN lead : lead[f] # ""
hasContactInfo(lead) == lead.phone # "" \/ lead.email # "" \/ lead.contactName # ""

\* HTTP responses
Response(status, body) == [status |-> status, body |-> body]
ErrorBody == [t |-> "object", score |-> Undefined, qualified |-> Undefined,
              reasoning |-> Undefined, qualificationCriteria |-> Undefined]
JudgmentBody(score, qualified, reasoning, criteria) ==
  [t |-> "object", score |-> Num(2 * score), qualified |-> Bool(qualified),
   reasoning |-> Str(reasoning), qualificationCriteria |-> Arr(criteria)]

\* property read analysis.f of a parsed payload that is not null
Prop(analysis, f) ==
  IF analysis.t = "object" THEN analysis[f] ELSE Undefined

\* Math.round(analysis.score || 50)
SanitizeScoreFalsy(analysis) ==
  IF Prop(analysis, "score").t = "number" /\ Prop(analysis, "score").h # 0
  THEN Clamp(MathRound(Prop(analysis, "score").h))
  ELSE 50
SanitizeScore(analysis) ==
  IF Prop(analysis, "score").t = "number"
  THEN Clamp(MathRound(Prop(analysis, "score").h))
  ELSE 50

\* analysis.qualified === true || score >= 60
SanitizeQualifiedOrThreshold(analysis) ==
  Prop(analysis, "qualified") = Bool(TRUE) \/ SanitizeScore(analysis) >= QualifyThreshold
SanitizeQualified(analysis) ==
  IF Prop(analysis, "qualified").t = "boolean"
  THEN Prop(analysis, "qualified").b
  ELSE SanitizeScore(analysis) >= QualifyThreshold

SanitizeReasoning(analysis) ==
  IF Prop(analysis, "reasoning").t = "string" /\ Trim(Prop(analysis, "reasoning").s) # <<>>
  THEN Trim(Prop(analysis, "reasoning").s)
  ELSE <<"AI analysis completed successfully.">>

SanitizeCriteria(analysis) ==
  IF Prop(analysis, "qualificationCriteria").t = "array"
  THEN LET kept == Slice0(FilterStrings(Prop(analysis, "qualificationCriteria").a),
                          MaxCriteria)
       IN [k \in 1..Len(kept) |-> Trim(kept[k].s)]
  ELSE <<>>

\* routes.ts 163-195: the 200 answer built from a parsed payload
Sanitize(analysis) ==
  Response(200, JudgmentBody(SanitizeScore(analysis), SanitizeQualified(analysis),
                             SanitizeReasoning(analysis), SanitizeCriteria(analysis)))

\* routes.ts 209-237: the handler's rule-based answer
ServerFallbackScore(lead) ==
  ServerBaseScore
  + (IF lead.industry \in TechWords THEN 10 ELSE 0)
  + (IF lead.companySize \in EnterpriseWords THEN 15 ELSE 0)
  + (IF lead.title \in CeoFounderWords THEN 20 ELSE 0)
  + (IF lead.phone # "" \/ lead.email # "" THEN 5 ELSE 0)

ServerFallbackCriteria(lead) ==
  (IF lead.industry \in TechWords THEN <<<<"Tech industry">>>> ELSE <<>>)
  \o (IF lead.companySize \in EnterpriseWords THEN <<<<"Enterprise size">>>> ELSE <<>>)
  \o (IF lead.title \in CeoFounderWords THEN <<<<"Executive contact">>>> ELSE <<>>)
  \o (IF lead.phone # "" \/ lead.email # "" THEN <<<<"Contact info available">>>> ELSE <<>>)

ServerFallbackReasoning ==
  <<"AI analysis temporarily unavailable. Score based on lead qualification rules.">>

ServerFallback(lead) ==
  Response(200, JudgmentBody(Clamp(ServerFallbackScore(lead)),
                             ServerFallbackScore(lead) >= QualifyThreshold,
                             ServerFallbackReasoning,
                             ServerFallbackCriteria(lead)))

\* The message content of a completion: empty, text that is not JSON, or
\* JSON text with the value it parses to.
ContentEmpty == [kind |-> "empty"]
ContentText == [kind |-> "text"]
ContentJson(v) == [kind |-> "json", value |-> v]

Payload(score, qualified, reasoning, criteria) ==
  [t |-> "object", score |-> score, qualified |-> qualified,
   reasoning |-> reasoning, qualificationCriteria |-> criteria]

\* {"score": 150, "qualified": "yes", "reasoning": "", "qualificationCriteria": [6 entries]}
PayloadOverflow ==
  Payload(Num(300), Str(<<"yes">>), Str(<<>>),
          Arr(<<Str(<<"a">>), Str(<<" ">>), Num(14), Str(<<" fit ">>), Str(<<"c">>),
                Str(<<"d">>), Str(<<"e">>), Str(<<"f">>)>>))
\* {"score": 0, "qualified": false}
PayloadZero == Payload(Num(0), Bool(FALSE), Undefined, Undefined)
\* {"score": 59.5, "qualified": false, "reasoning": "fit", ...}
PayloadHalf == Payload(Num(119), Bool(FALSE), Str(<<" fit ">>), Arr(<<Str(<<"a">>)>>))

\* the contents the service answers with in the runs of the pipeline
Contents == {ContentText, ContentJson(PayloadOverflow), ContentJson(PayloadZero)}

\* routes.ts 150-195 with the catch at 197: the answer after the retry loop
\* left with a completion
AnswerCompletion(lead, content) ==
  IF content.kind # "json" \/ content.value.t = "null"
  THEN ServerFallback(lead)
  ELSE Sanitize(content.value)

(* ---------------- client: processLead, pure parts ---------------- *)
\* { ...lead, score, qualified, reasoning, qualificationCriteria }
ProcessedLead(lead, score, qualified, reasoning, criteria) ==
  [id |-> lead.id, industry |-> lead.industry, companySize |-> lead.companySize,
   title |-> lead.title, phone |-> lead.phone, email |-> lead.email,
   contactName |-> lead.contactName,
   score |-> score, qualified |-> qualified, reasoning |-> reasoning,
   qualificationCriteria |-> criteria]

\* lead-processor.ts 162: the response is accepted only with a numeric score
\* and a boolean qualified
ValidAnalysis(analysis) ==
  analysis.score.t = "number" /\ analysis.qualified.t = "boolean"

\* lead-processor.ts 166-172
AcceptAnalysis(lead, analysis) ==
  ProcessedLead(lead,
    Clamp(MathRound(analysis.score.h)),
    analysis.qualified.b,
    IF Truthy(analysis.reasoning) THEN analysis.reasoning.s
    ELSE <<"AI analysis completed successfully.">>,
    IF analysis.qualificationCriteria.t = "array"
    THEN analysis.qualificationCriteria.a ELSE <<>>)

\* lead-processor.ts 189-195: the answer of the second request
RetryAnalysis(lead, analysis) ==
  ProcessedLead(lead,
    Clamp(MathRound(IF Truthy(analysis.score) THEN analysis.score.h ELSE 2 * 50)),
    IF Truthy(analysis.qualified) THEN analysis.qualified.b ELSE FALSE,
    IF Truthy(analysis.reasoning) THEN analysis.reasoning.s
    ELSE <<"AI analysis completed on retry.">>,
    IF analysis.qualificationCriteria.t = "array"
    THEN analysis.qualificationCriteria.a ELSE <<>>)

\* lead-processor.ts 203-237: the client's rule-based scoring
\* the weights of the handler's rules: contact +5, no director
ClientFallbackScoreServerWeights(lead) ==
  ClientBaseScore
  + (IF lead.industry \in TechWords THEN 10 ELSE 0)
  + (IF lead.companySize \in EnterpriseWords THEN 15 ELSE 0)
  + (IF lead.title \in CeoFounderWords THEN 20 ELSE 0)
  + (IF lead.phone # "" \/ lead.email # "" THEN 5 ELSE 0)
  + (IF lead.contactName # "" THEN 5 ELSE 0)
ClientFallbackScore(lead) ==
  ClientBaseScore
  + (IF lead.industry \in TechWords THEN 10 ELSE 0)
  + (IF lead.companySize \in EnterpriseWords THEN 15 ELSE 0)
  + (IF lead.title \in CeoFounderWords \cup DirectorWords THEN 20 ELSE 0)
  + (IF lead.phone # "" \/ lead.email # "" THEN 10 ELSE 0)
  + (IF lead.contactName # "" THEN 5 ELSE 0)

\* the text of the reasoning pushed as a criterion when none applies
ClientFallbackCriteriaNeverEmpty(lead) ==
  LET pushed ==
        (IF lead.industry \in TechWords THEN <<<<"Tech industry">>>> ELSE <<>>)
        \o (IF lead.companySize \in EnterpriseWords
            THEN <<<<"Enterprise company">>>> ELSE <<>>)
        \o (IF lead.title \in CeoFounderWords \cup DirectorWords
            THEN <<<<"Senior executive">>>> ELSE <<>>)
        \o (IF lead.phone # "" \/ lead.email # ""
            THEN <<<<"Contact details available">>>> ELSE <<>>)
        \o (IF lead.contactName # "" THEN <<<<"Named contact">>>> ELSE <<>>)
  IN IF pushed = <<>> THEN <<<<"Basic contact information available">>>> ELSE pushed
ClientFallbackCriteria(lead) ==
  (IF lead.industry \in TechWords THEN <<<<"Tech industry">>>> ELSE <<>>)
  \o (IF lead.companySize \in EnterpriseWords THEN <<<<"Enterprise company">>>> ELSE <<>>)
  \o (IF lead.title \in CeoFounderWords \cup DirectorWords
      THEN <<<<"Senior executive">>>> ELSE <<>>)
  \o (IF lead.phone # "" \/ lead.email # "" THEN <<<<"Contact details available">>>> ELSE <<>>)
  \o (IF lead.contactName # "" THEN <<<<"Named contact">>>> ELSE <<>>)

\* Array.prototype.join(', ') as the chunks of the joined text
RECURSIVE Join(_)
Join(a) ==
  IF a = <<>> THEN <<>>
  ELSE IF Len(a) = 1 THEN Head(a)
  ELSE Head(a) \o <<", ">> \o Join(Tail(a))

ClientFallback(lead) ==
  ProcessedLead(lead,
    Clamp(ClientFallbackScore(lead)),
    ClientFallbackScore(lead) >= QualifyThreshold,
    <<"Lead scored based on available data: ">>
      \o (IF Len(ClientFallbackCriteria(lead)) > 0
          THEN Join(ClientFallbackCriteria(lead))
          ELSE <<"Basic contact information available">>)
      \o <<".">>,
    ClientFallbackCriteria(lead))

\* lead-processor.ts 64-70: the judgment of the per-lead task's catch branch
BatchCatchLead(lead) ==
  ProcessedLead(lead, 35, FALSE,
    <<"Processing error: ", "Unknown error", ". Using fallback scoring.">>,
    <<<<"Requires manual review">>>>)

\* What processLead hands back: a returned value or a thrown error.  The
\* path that produced it is recorded next to it (it is not part of the
\* ProcessedLead).
Returned(pl, path) == [kind |-> "return", lead |-> pl, via |-> path]
Thrown(pl, path) == [kind |-> "throw", lead |-> pl, via |-> path]

\* lead-processor.ts 174-251: the catch of processLead when no second request
\* is made or after the second request failed
processLeadRethrows(lead) == Thrown(ClientFallback(lead), "rules")
processLeadCatch(lead) == Returned(ClientFallback(lead), "rules")

\* lead-processor.ts 148-172: the answer to the first request
OnFirstResponseWantsSuccess(lead, resp) ==
  IF resp.status # 200 THEN processLeadCatch(lead)
  ELSE IF ~ValidAnalysis(resp.body) \/ resp.body.reasoning = Str(ServerFallbackReasoning)
  THEN processLeadCatch(lead)
  ELSE Returned(AcceptAnalysis(lead, resp.body), "analysis")
OnFirstResponse(lead, resp) ==
  IF resp.status # 200 THEN processLeadCatch(lead)
  ELSE IF ~ValidAnalysis(resp.body) THEN processLeadCatch(lead)
  ELSE Returned(AcceptAnalysis(lead, resp.body), "analysis")

\* lead-processor.ts 187-200: the answer to the second request
\* a second request whose error status is thrown out of processLead
OnRetryResponseThrows(lead, resp) ==
  IF resp.status = 200 THEN Returned(RetryAnalysis(lead, resp.body), "retry")
  ELSE Thrown(ClientFallback(lead), "rules")
OnRetryResponse(lead, resp) ==
  IF resp.status = 200 THEN Returned(RetryAnalysis(lead, resp.body), "retry")
  ELSE processLeadCatch(lead)

\* lead-processor.ts 46-75: the per-lead task around processLead
TaskResult(lead, outcome) ==
  IF outcome.kind = "return"
  THEN [success |-> TRUE, lead |-> outcome.lead, via |-> outcome.via]
  ELSE [success |-> FALSE, lead |-> BatchCatchLead(lead), via |-> "batchCatch"]

(* ---------------- state ---------------- *)
VARIABLES
  leads,            \* the input list (never modified)
  businessSetup,    \* the rubric (never modified)
  onProgress,       \* the callback: "none" (not supplied), "returns" or "throws"
  pc,               \* position of processLeads: "call", "run", "delay", "returned",
                    \* "rejected"
  i,                \* loop index of the batch loop
  tasks,            \* the per-lead tasks of the current batch, by batchIndex
  settled,          \* batchIndexes of the latest batch in the order they settled
  processedLeads, qualifiedCount, totalScore, totalErrors, totalRetries,
  processingTimes,  \* number of latency samples pushed so far
  progress,         \* the snapshots handed to onProgress
  result,           \* what processLeads returned
  req,              \* the requests to /api/analyze-lead and their handlers
  orphanCalls,      \* completions that lost Promise.race and are still running
  via,              \* per processed lead: the path that produced its judgment
  fate,             \* per processed lead: whether its scoring failed, else its answer
  subject,          \* the lead handed to the validator and the fallback scorers
  completion,       \* the completion content handed to the validator
  answer,           \* what the handler answered for completion
  clientRuns,       \* the judgments of the client's fallback scorer for subject
  serverRuns        \* the answers of the handler's fallback scorer for subject

vars == <<leads, businessSetup, pc, i, tasks, settled, processedLeads, qualifiedCount,
          totalScore, totalErrors, totalRetries, processingTimes, progress, result,
          req, orphanCalls, via, fate, subject, completion, answer, clientRuns, serverRuns,
          onProgress>>

\* the arguments of the functions that are run on their own
unitVars == <<subject, completion, answer, clientRuns, serverRuns>>
\* what no step of a run of processLeads modifies
inputVars == <<leads, businessSetup, onProgress, unitVars>>
counterVars == <<processedLeads, qualifiedCount, totalScore, totalRetries, progress,
                 result, via, fate>>
loopVars == <<pc, i>>

BatchIndexes == 0..(batchSize - 1)

NoLead == ProcessedLead(LeadBare, 0, FALSE, <<>>, <<>>)
NoResponse == Response(0, ErrorBody)
\* how the scoring of a lead ended: failed, or scored from the answer resp
Fate(failed, resp) == [failed |-> failed, resp |-> IF failed THEN NoResponse ELSE resp]
NoTask == [st |-> "none", res |-> [success |-> FALSE, lead |-> NoLead, via |-> "none"],
           fate |-> Fate(FALSE, NoResponse)]
\* calls counts the calls to the AI service the handler of the request made;
\* after names the error of the first request that made the client send this
\* one
NoRequest == [st |-> "unsent", open |-> FALSE, attempts |-> 0, calls |-> 0,
              after |-> "none", resp |-> NoResponse]
NoResult == [returned |-> FALSE, leads |-> <<>>,
             stats |-> [totalLeads |-> 0, processedLeads |-> 0, qualifiedLeads |-> 0,
                        notQualifiedLeads |-> 0,
                        averageScore |-> [nan |-> FALSE, num |-> 0, den |-> 1],
                        qualificationRate |-> [nan |-> FALSE, num |-> 0, den |-> 1]]]

\* the locals of processLeads before its first step
Fresh ==
  /\ pc = "call"
  /\ i = 0
  /\ tasks = [k \in BatchIndexes |-> NoTask]
  /\ settled = <<>>
  /\ processedLeads = <<>>
  /\ qualifiedCount = 0
  /\ totalScore = 0
  /\ totalErrors = 0
  /\ totalRetries = 0
  /\ processingTimes = 0
  /\ progress = <<>>
  /\ result = NoResult
  /\ req = [r \in (1..Len(leads)) \X (1..2) |-> NoRequest]
  /\ orphanCalls = 0
  /\ via = <<>>
  /\ fate = <<>>

\* nothing has been handed to the validator or the fallback scorers
NoUnit ==
  /\ subject = LeadBare
  /\ completion = ContentEmpty
  /\ answer = NoResponse
  /\ clientRuns = <<>>
  /\ serverRuns = <<>>

Init ==
  /\ leads \in LeadLists
  /\ businessSetup \in {RubricOk, RubricShortDescription, RubricShortGoals}
  /\ onProgress = "returns"
  /\ Fresh
  /\ NoUnit

(* ---------------- client: processLeads ---------------- *)
\* leads.slice(i, i + batchSize), as the indexes into leads
BatchLen(n, from) == Min(batchSize, n - from)

LeadAt(k) == leads[i + k + 1]
ReqOf(k, n) == <<i + k + 1, n>>

\* JavaScript division of two non-negative integers
Divide(a, b) ==
  IF b = 0 THEN [nan |-> TRUE, num |-> a, den |-> b]
  ELSE [nan |-> FALSE, num |-> a, den |-> b]

\* lead-processor.ts 114-123
Stats(n, processed, qualified, total) ==
  [totalLeads |-> n,
   processedLeads |-> Len(processed),
   qualifiedLeads |-> qualified,
   notQualifiedLeads |-> Len(processed) - qualified,
   averageScore |-> Divide(total, Len(processed)),
   qualificationRate |-> Divide(qualified * 100, Len(processed))]

\* a task reaches the end of its async function: lead-processor.ts 55-57 on
\* a returned value, 58-73 on a thrown error
SettleIn(ts, order, k, outcome, how) ==
  /\ tasks' = [ts EXCEPT ![k] = [st |-> "settled",
                                 res |-> TaskResult(LeadAt(k), outcome),
                                 fate |-> how]]
  /\ totalErrors' = totalErrors + (IF outcome.kind = "throw" THEN 1 ELSE 0)
  /\ processingTimes' = processingTimes + 1
  /\ settled' = Append(order, k)

Settle(k, outcome, how) == SettleIn(tasks, settled, k, outcome, how)

\* fetch('/api/analyze-lead', ...) of request n of the lead of task k
Send(k, n) ==
  [req EXCEPT ![ReqOf(k, n)] = [NoRequest EXCEPT !.st = "sent", !.open = TRUE]]

\* lead-processor.ts 126-146: processLead up to its first await.  A lead
\* without id throws before any request and is scored by the rules (174-237)
\* in the same turn of the event loop.
BeginLead(ts, order, k) ==
  IF LeadAt(k).id = ""
  THEN /\ SettleIn(ts, order, k, processLeadCatch(LeadAt(k)), Fate(TRUE, NoResponse))
       /\ UNCHANGED req
  ELSE /\ tasks' = [ts EXCEPT ![k].st = "wait1"]
       /\ req' = Send(k, 1)
       /\ settled' = order
       /\ UNCHANGED <<totalErrors, processingTimes>>

\* lead-processor.ts 36-54: the map over the batch runs each task up to its
\* first await; the task with batchIndex 0 reaches processLead at once, the
\* others wait 200 ms first.
StartBatch ==
  BeginLead([k \in BatchIndexes |->
               IF k >= BatchLen(Len(leads), i) THEN NoTask
               ELSE [NoTask EXCEPT !.st = "delay"]],
            <<>>, 0)

Call ==
  /\ pc = "call"
  /\ IF Len(leads) = 0
     THEN /\ pc' = "returned"
          /\ result' = [returned |-> TRUE, leads |-> processedLeads,
                        stats |-> Stats(Len(leads), processedLeads, qualifiedCount, totalScore)]
          /\ UNCHANGED <<tasks, settled, req, totalErrors, processingTimes>>
     ELSE /\ pc' = "run"
          /\ StartBatch
          /\ UNCHANGED result
  /\ UNCHANGED <<inputVars, i, processedLeads, qualifiedCount, totalScore,
                 totalRetries, progress, orphanCalls, via, fate>>

\* lead-processor.ts 40-42: the 1.5 s pause before every batch but the first
BatchDelayEnds ==
  /\ pc = "delay"
  /\ pc' = "run"
  /\ StartBatch
  /\ UNCHANGED <<inputVars, i, counterVars, orphanCalls>>

\* lead-processor.ts 50-52: the 200 ms pause of a task with batchIndex > 0
TaskDelayEnds(k) ==
  /\ pc = "run"
  /\ tasks[k].st = "delay"
  /\ BeginLead(tasks, settled, k)
  /\ UNCHANGED <<inputVars, loopVars, counterVars, orphanCalls>>

\* the request a waiting task waits on
Waiting(k) == tasks[k].st \in {"wait1", "wait2"}
Pending(k) == ReqOf(k, IF tasks[k].st = "wait1" THEN 1 ELSE 2)

\* AbortController.abort(): the client end of the request is closed.  A
\* request that has not reached the handler, or whose answer is on its way,
\* ends there; a handler that is running is not told and goes on.
AbortIgnored(rq, r) == rq
\* one controller shared by the requests of a run
AbortAll(rq, r) ==
  [q \in DOMAIN rq |-> IF rq[q].st \in {"sent", "answered"}
                       THEN [NoRequest EXCEPT !.st = "closed"]
                       ELSE [rq[q] EXCEPT !.open = FALSE]]
Abort(rq, r) ==
  [rq EXCEPT ![r] = IF rq[r].st \in {"sent", "answered"}
                    THEN [NoRequest EXCEPT !.st = "closed"]
                    ELSE [rq[r] EXCEPT !.open = FALSE]]

\* lead-processor.ts 178-185: the second fetch of the lead of task k, sent
\* from the catch that caught error
Resend(rq, k, error) ==
  [rq EXCEPT ![ReqOf(k, 2)] =
     [NoRequest EXCEPT !.st = "sent", !.open = TRUE, !.after = error]]

\* lead-processor.ts 135 and 174-185: the 12 s timer aborts the first request,
\* fetch rejects with an AbortError and the catch sends the second request,
\* this time without a signal
ClientTimeout(k) ==
  /\ pc = "run"
  /\ tasks[k].st = "wait1"
  /\ Cardinality({r \in DOMAIN req : r[2] = 2 /\ req[r].st # "unsent"}) < MaxClientTimeouts
  /\ tasks' = [tasks EXCEPT ![k].st = "wait2"]
  /\ req' = Resend(Abort(req, ReqOf(k, 1)), k, "AbortError")
  /\ UNCHANGED <<inputVars, loopVars, counterVars, settled, totalErrors, processingTimes,
                 orphanCalls>>

\* lead-processor.ts 146-172 and 187-196: the response of the pending request
\* arrives
Receive(k) ==
  /\ pc = "run"
  /\ Waiting(k)
  /\ req[Pending(k)].st = "answered"
  /\ LET resp == req[Pending(k)].resp
     IN IF tasks[k].st = "wait1"
        THEN Settle(k, OnFirstResponse(LeadAt(k), resp),
                    Fate(resp.status # 200 \/ ~ValidAnalysis(resp.body), resp))
        ELSE Settle(k, OnRetryResponse(LeadAt(k), resp), Fate(resp.status # 200, resp))
  /\ req' = [req EXCEPT ![Pending(k)] = [NoRequest EXCEPT !.st = "closed"]]
  /\ UNCHANGED <<inputVars, loopVars, counterVars, orphanCalls>>

\* fetch rejects with a network error (174-237; after 197-199 for the second
\* request): no retry, the rules score the lead
\* a catch that sends the second request after any error of the first
NetworkErrorRetries(k) ==
  /\ pc = "run"
  /\ Waiting(k)
  /\ IF tasks[k].st = "wait1"
     THEN /\ tasks' = [tasks EXCEPT ![k].st = "wait2"]
          /\ req' = Resend(Abort(req, Pending(k)), k, "TypeError")
          /\ UNCHANGED <<settled, totalErrors, processingTimes>>
     ELSE /\ Settle(k, processLeadCatch(LeadAt(k)), Fate(TRUE, NoResponse))
          /\ req' = Abort(req, Pending(k))
  /\ UNCHANGED <<inputVars, loopVars, counterVars, orphanCalls>>
NetworkError(k) ==
  /\ pc = "run"
  /\ Waiting(k)
  /\ Settle(k, processLeadCatch(LeadAt(k)), Fate(TRUE, NoResponse))
  /\ req' = Abort(req, Pending(k))
  /\ UNCHANGED <<inputVars, loopVars, counterVars, orphanCalls>>

\* Promise.all(batchPromises): the results by position in the batch
PromiseAllBySettling(ts, order, n) == [k \in 1..n |-> ts[order[k]].res]
PromiseAll(ts, order, n) == [k \in 1..n |-> ts[k - 1].res]

SumScoresOfFirst(rs) == IF rs = <<>> THEN 0 ELSE Head(rs).lead.score
RECURSIVE SumScores(_)
SumScores(rs) == IF rs = <<>> THEN 0 ELSE Head(rs).lead.score + SumScores(Tail(rs))
RECURSIVE CountQualified(_)
CountQualified(rs) ==
  IF rs = <<>> THEN 0
  ELSE (IF Head(rs).lead.qualified THEN 1 ELSE 0) + CountQualified(Tail(rs))

\* Math.ceil(n / batchSize)
TotalBatches(n) == (n + batchSize - 1) \div batchSize

\* lead-processor.ts 99-111, without the wall-clock figures
\* currentBatch as Math.ceil(i / batchSize)
\* retries as the number of second requests sent so far
SnapshotCountingRetries(processed, n, from, errors, retries) ==
  [processed |-> processed, total |-> n,
   currentBatch |-> (from \div batchSize) + 1,
   totalBatches |-> TotalBatches(n),
   errors |-> errors,
   retries |-> Cardinality({r \in DOMAIN req : r[2] = 2 /\ req[r].st # "unsent"})]
SnapshotCeil(processed, n, from, errors, retries) ==
  [processed |-> processed, total |-> n,
   currentBatch |-> (from + batchSize - 1) \div batchSize,
   totalBatches |-> TotalBatches(n),
   errors |-> errors, retries |-> retries]
Snapshot(processed, n, from, errors, retries) ==
  [processed |-> processed, total |-> n,
   currentBatch |-> (from \div batchSize) + 1,
   totalBatches |-> TotalBatches(n),
   errors |-> errors, retries |-> retries]

\* lead-processor.ts 78: await Promise.all(batchPromises) resumes when every
\* task of the batch has settled
AnySettled(ts) == \E k \in BatchIndexes : ts[k].st = "settled"
AllSettled(ts) == \A k \in BatchIndexes : ts[k].st \in {"none", "settled"}

\* lead-processor.ts 81-83: processedLeads.push(result.lead) for each result
PushAtBatchIndex(list, rs) ==
  [idx \in 1..Max(Len(list), Len(rs)) |-> IF idx <= Len(rs) THEN rs[idx].lead ELSE list[idx]]
Push(list, rs) == list \o [k \in 1..Len(rs) |-> rs[k].lead]

\* lead-processor.ts 78-123: all tasks of the batch have settled; the results
\* are appended, the counters updated, the snapshot reported, and the loop
\* goes on to the pause before the next batch or to the return.  An error
\* thrown by onProgress (110) is not caught: it rejects processLeads.
AwaitAll ==
  /\ pc = "run"
  /\ AllSettled(tasks)
  /\ LET n == BatchLen(Len(leads), i)
         batchResults == PromiseAll(tasks, settled, n)
         pushed == Push(processedLeads, batchResults)
         qualified == qualifiedCount + CountQualified(batchResults)
         total == totalScore + SumScores(batchResults)
     IN /\ processedLeads' = pushed
        /\ qualifiedCount' = qualified
        /\ totalScore' = total
        /\ progress' = IF onProgress = "none" THEN progress
                       ELSE Append(progress,
                                   Snapshot(Len(pushed), Len(leads), i, totalErrors,
                                            totalRetries))
        /\ via' = via \o [k \in 1..n |-> batchResults[k].via]
        /\ fate' = fate \o [k \in 1..n |-> tasks[k - 1].fate]
        /\ i' = i + batchSize
        /\ IF onProgress = "throws"
           THEN /\ pc' = "rejected"
                /\ UNCHANGED result
           ELSE IF i + batchSize < Len(leads)
           THEN /\ pc' = "delay"
                /\ UNCHANGED result
           ELSE /\ pc' = "returned"
                /\ result' = [returned |-> TRUE, leads |-> pushed,
                              stats |-> Stats(Len(leads), pushed, qualified, total)]
  /\ tasks' = [k \in BatchIndexes |-> NoTask]
  /\ UNCHANGED <<inputVars, settled, totalErrors, totalRetries, processingTimes, req,
                 orphanCalls>>

(* ---------------- server: the /api/analyze-lead handler ---------------- *)
Requests == DOMAIN req
LeadOf(r) == leads[r[1]]

\* res.json(...) / res.status(...).json(...): the response reaches the client
\* only while the client end is open
\* a response that is sent without leaving the handler
AnswerAndGoOn(r, resp) ==
  [req EXCEPT ![r] = IF req[r].open THEN [req[r] EXCEPT !.resp = resp] ELSE req[r]]
Answer(r, resp) ==
  [req EXCEPT ![r] = IF req[r].open
                     THEN [req[r] EXCEPT !.st = "answered", !.resp = resp]
                     ELSE [NoRequest EXCEPT !.st = "closed"]]

\* calls to the text-generation service that were started and have not
\* completed: the one each handler in its retry loop waits on, and those that
\* lost the race against the 10 s timer
OutstandingCalls == Cardinality({r \in Requests : req[r].st = "ai"}) + orphanCalls

\* requests the client has sent and still waits on
InFlight == Cardinality({r \in Requests : req[r].open})

\* routes.ts 17-28 and 53: the rate limiter answers 429 before the handler
RateLimited(r) ==
  /\ req[r].st = "sent"
  /\ req' = Answer(r, Response(429, ErrorBody))
  /\ UNCHANGED <<inputVars, loopVars, counterVars, tasks, settled, totalErrors,
                 processingTimes, orphanCalls>>

\* something between client and handler answers 200 with a JSON body that is
\* not a judgment
MalformedAnswer(r) ==
  /\ req[r].st = "sent"
  /\ req' = Answer(r, Response(200, ErrorBody))
  /\ UNCHANGED <<inputVars, loopVars, counterVars, tasks, settled, totalErrors,
                 processingTimes, orphanCalls>>

\* routes.ts 56-119: validation, then the first call to the AI service
HandlerStart(r) ==
  /\ req[r].st = "sent"
  /\ req' = IF ~leadAnalysisSchema(LeadOf(r), businessSetup)
            THEN Answer(r, Response(400, ErrorBody))
            ELSE IF ~hasContactInfo(LeadOf(r))
            THEN Answer(r, Response(400, ErrorBody))
            ELSE [req EXCEPT ![r].st = "ai", ![r].attempts = 0, ![r].calls = 1]
  /\ UNCHANGED <<inputVars, loopVars, counterVars, tasks, settled, totalErrors,
                 processingTimes, orphanCalls>>

\* routes.ts 118-195: the completion arrives first; the loop is left and the
\* answer is built from the content
AIReturns(r, content) ==
  /\ req[r].st = "ai"
  /\ req' = Answer(r, AnswerCompletion(LeadOf(r), content))
  /\ UNCHANGED <<inputVars, loopVars, counterVars, tasks, settled, totalErrors,
                 processingTimes, orphanCalls>>

\* routes.ts 139-147 and 197-237: an attempt failed; after the last one the
\* error leaves the loop and the handler answers with its rule-based judgment
AfterFailedAttemptOnceMore(r) ==
  IF req[r].attempts + 1 > maxAttempts
  THEN Answer(r, ServerFallback(LeadOf(r)))
  ELSE [req EXCEPT ![r].st = "backoff", ![r].attempts = req[r].attempts + 1]
AfterFailedAttempt(r) ==
  IF req[r].attempts + 1 >= maxAttempts
  THEN Answer(r, ServerFallback(LeadOf(r)))
  ELSE [req EXCEPT ![r].st = "backoff", ![r].attempts = req[r].attempts + 1]

\* the call to the AI service rejects
AIFails(r) ==
  /\ req[r].st = "ai"
  /\ req' = AfterFailedAttempt(r)
  /\ UNCHANGED <<inputVars, loopVars, counterVars, tasks, settled, totalErrors,
                 processingTimes, orphanCalls>>

\* routes.ts 134-136: the 10 s timer wins Promise.race; the call it raced
\* against is not cancelled
AITimeout(r) ==
  /\ req[r].st = "ai"
  /\ orphanCalls < MaxOrphanCalls
  /\ orphanCalls' = orphanCalls + 1
  /\ req' = AfterFailedAttempt(r)
  /\ UNCHANGED <<inputVars, loopVars, counterVars, tasks, settled, totalErrors,
                 processingTimes>>

\* routes.ts 146 and 116-119: the 500 ms pause ends and the next attempt starts
BackoffEnds(r) ==
  /\ req[r].st = "backoff"
  /\ req' = [req EXCEPT ![r].st = "ai", ![r].calls = req[r].calls + 1]
  /\ UNCHANGED <<inputVars, loopVars, counterVars, tasks, settled, totalErrors,
                 processingTimes, orphanCalls>>

\* a call that lost the race completes; nobody waits for it
OrphanCompletes ==
  /\ orphanCalls > 0
  /\ orphanCalls' = orphanCalls - 1
  /\ UNCHANGED <<inputVars, loopVars, counterVars, tasks, settled, totalErrors,
                 processingTimes, req>>

(* ---------------- specification ---------------- *)
Next ==
  \/ Call
  \/ BatchDelayEnds
  \/ \E k \in BatchIndexes : TaskDelayEnds(k)
  \/ \E k \in BatchIndexes : ClientTimeout(k)
  \/ \E k \in BatchIndexes : Receive(k)
  \/ \E k \in BatchIndexes : NetworkError(k)
  \/ AwaitAll
  \/ \E r \in Requests : RateLimited(r)
  \/ \E r \in Requests : MalformedAnswer(r)
  \/ \E r \in Requests : HandlerStart(r)
  \/ \E r \in Requests, content \in Contents : AIReturns(r, content)
  \/ \E r \in Requests : AIFails(r)
  \/ \E r \in Requests : AITimeout(r)
  \/ \E r \in Requests : BackoffEnds(r)
  \/ OrphanCompletes

Spec == Init /\ [][Next]_vars

\* The client's own steps always get their turn (the event loop runs every
\* callback that is ready).  The handler of a first request starts, each of
\* its attempts ends (at the latest by the 10 s timer) and each pause ends;
\* nothing makes the endpoint answer a second request.
LiveSpec ==
  /\ Init /\ [][Next]_vars
  /\ WF_vars(Call)
  /\ WF_vars(BatchDelayEnds)
  /\ WF_vars(AwaitAll)
  /\ \A k \in BatchIndexes :
       WF_vars(TaskDelayEnds(k)) /\ WF_vars(Receive(k))
  /\ \A r \in (1..MaxLeads) \X {1} :
       /\ WF_vars(r \in Requests /\ HandlerStart(r))
       /\ WF_vars(r \in Requests /\ (AIFails(r) \/ AITimeout(r)))
       /\ WF_vars(r \in Requests /\ BackoffEnds(r))

\* the runs with every kind of callback
CallbackInit ==
  /\ leads \in LeadLists
  /\ businessSetup = RubricOk
  /\ onProgress \in {"none", "returns", "throws"}
  /\ Fresh
  /\ NoUnit

CallbackSpec == CallbackInit /\ [][Next]_vars

(* ---------------- the validator on its own ---------------- *)
\* The values JSON.parse can return for the content of a completion: every
\* kind of JSON value, and the objects whose fields range over absent, null,
\* wrongly typed and well typed values.  Scores run through every half
\* between -1.5 and MaxScoreHalves / 2, and 150.
ScoreValues ==
  {Undefined, Null, Str(<<"75">>), Num(300)} \cup {Num(h) : h \in -3..MaxScoreHalves}
QualifiedValues == {Undefined, Null, Bool(TRUE), Bool(FALSE), Str(<<"yes">>)}
ReasoningValues == {Undefined, Str(<<>>), Str(<<" fit ">>)}
CriteriaValues == {Undefined, PayloadOverflow.qualificationCriteria}

ObjectPayloads ==
  {Payload(s, q, why, c) : s \in ScoreValues, q \in QualifiedValues,
                           why \in ReasoningValues, c \in CriteriaValues}
OtherPayloads == {Null, Num(84), Str(<<"sorry">>), Bool(TRUE), Arr(<<Num(2)>>)}

Completions ==
  {ContentEmpty, ContentText} \cup {ContentJson(v) : v \in ObjectPayloads \cup OtherPayloads}

\* the retry loop was left with a completion for a request that passed the
\* checks of routes.ts 58-79
ValidatorInit ==
  /\ leads = <<>>
  /\ businessSetup = RubricOk
  /\ onProgress = "returns"
  /\ Fresh
  /\ subject \in {LeadFull, LeadDirector}
  /\ completion \in Completions
  /\ answer = NoResponse
  /\ clientRuns = <<>>
  /\ serverRuns = <<>>

pipelineVars == <<leads, businessSetup, pc, i, tasks, settled, processedLeads,
                  qualifiedCount, totalScore, totalErrors, totalRetries, processingTimes,
                  progress, result, req, orphanCalls, via, fate, onProgress>>

\* routes.ts 150-237: the handler answers for the completion
Validate ==
  /\ answer = NoResponse
  /\ answer' = AnswerCompletion(subject, completion)
  /\ UNCHANGED <<pipelineVars, subject, completion, clientRuns, serverRuns>>

ValidatorNext == Validate
ValidatorSpec == ValidatorInit /\ [][ValidatorNext]_vars

(* ---------------- the fallback scorers on their own ---------------- *)
\* the leads with every combination of present and absent optional fields
WellFormedLeads ==
  [id : {"a"}, industry : {"", "Technology", "Retail"}, companySize : {"", "Enterprise"},
   title : {"", "CEO", "Director"}, phone : {"", "555"}, email : {"", "a@x.io"},
   contactName : {"", "Ann"}]

ScorerInit ==
  /\ leads = <<>>
  /\ businessSetup = RubricOk
  /\ onProgress = "returns"
  /\ Fresh
  /\ subject \in WellFormedLeads
  /\ completion = ContentEmpty
  /\ answer = NoResponse
  /\ clientRuns = <<>>
  /\ serverRuns = <<>>

\* lead-processor.ts 202-250: the client scores the lead by its rules
ClientScores ==
  /\ Len(clientRuns) < MaxScorerRuns
  /\ clientRuns' = Append(clientRuns, ClientFallback(subject))
  /\ UNCHANGED <<pipelineVars, subject, completion, answer, serverRuns>>

\* routes.ts 201-237: the handler scores the lead by its rules
ServerScores ==
  /\ Len(serverRuns) < MaxScorerRuns
  /\ serverRuns' = Append(serverRuns, ServerFallback(subject))
  /\ UNCHANGED <<pipelineVars, subject, completion, answer, clientRuns>>

ScorerNext == ClientScores \/ ServerScores
ScorerSpec == ScorerInit /\ [][ScorerNext]_vars

(* ---------------- properties ---------------- *)
LeadFieldsOf(pl) == [f \in DOMAIN LeadBare |-> pl[f]]
JudgmentFields == {"score", "qualified", "reasoning", "qualificationCriteria"}
Indexes == 1..Len(processedLeads)

\* C1: the returned list is as long as the input list and its i-th element
\* carries the fields of the i-th input lead, whatever the outcomes and the
\* order in which the tasks of a batch settled.
C1_OrderPreserved ==
  /\ Len(processedLeads) <= Len(leads)
  /\ \A idx \in Indexes : LeadFieldsOf(processedLeads[idx]) = leads[idx]
  /\ (result.returned /\ Len(leads) > 0) =>
       /\ Len(result.leads) = Len(leads)
       /\ \A idx \in 1..Len(leads) : LeadFieldsOf(result.leads[idx]) = leads[idx]

\* a run has returned whose last batch held two different leads, the second
\* of which settled first
C1_Witness ==
  /\ result.returned
  /\ Len(leads) = batchSize
  /\ leads[1] # leads[2]
  /\ settled = <<1, 0>>

\* C2: at no point does the client wait on more than batchSize requests to
\* /api/analyze-lead, the second request after a timeout included.
C2_InFlightBound == InFlight <= batchSize

\* two requests are in flight and one of them is the second request of a lead
C2_Witness ==
  /\ InFlight = batchSize
  /\ \E r \in Requests : r[2] = 2 /\ req[r].open

\* C3: the calls to the text-generation service that were started and have
\* not completed never exceed the batch size.
C3_OutstandingCallsBound == OutstandingCalls <= batchSize

RuleBased == {"rules", "batchCatch"}

\* C4: in every progress snapshot, errors is the number of leads processed so
\* far that received a fallback judgment.
C4_ErrorsCountFallbacks ==
  \A n \in 1..Len(progress) :
    progress[n].errors =
      Cardinality({idx \in 1..progress[n].processed : via[idx] \in RuleBased})

\* C5: every returned lead whose judgment is fallback-derived carries a tag
\* for it, a field besides the lead's fields and the four fields of a
\* judgment.
C5_FallbackTagged ==
  result.returned =>
    \A idx \in 1..Len(result.leads) :
      via[idx] \in RuleBased =>
        (DOMAIN result.leads[idx]) \ (DOMAIN LeadBare \cup JudgmentFields) # {}

\* C6: processLeads returns in the end, also when the endpoint never answers
\* some requests.
C6_EventuallyReturns == <>(pc = "returned")

\* C7: every judgment has a score in 0..100 and at most 5 criteria.
C7_ScoreAndCriteriaBounds ==
  /\ \A idx \in Indexes :
       /\ processedLeads[idx].score \in 0..100
       /\ Len(processedLeads[idx].qualificationCriteria) <= 5
  /\ \A k \in BatchIndexes :
       tasks[k].st = "settled" =>
         /\ tasks[k].res.lead.score \in 0..100
         /\ Len(tasks[k].res.lead.qualificationCriteria) <= 5

\* a returned lead whose score was clamped from 150 and whose criteria were
\* cut from six
C7_Witness ==
  /\ result.returned
  /\ \E idx \in 1..Len(result.leads) :
       /\ fate[idx].resp = Sanitize(PayloadOverflow)
       /\ result.leads[idx].score = 100
       /\ Len(result.leads[idx].qualificationCriteria) = 5

\* C8: a lead whose scoring failed gets the rule-based judgment of its own
\* fields, every other lead the judgment of its own answer, and the run is
\* not left by an error.
C8_FailureIsolated ==
  /\ \A k \in BatchIndexes : tasks[k].st = "settled" => tasks[k].res.success
  /\ \A idx \in Indexes :
       IF fate[idx].failed
       THEN /\ via[idx] = "rules"
            /\ processedLeads[idx].score =
                 Min(100, ClientFallbackScore(leads[idx]))
            /\ Len(processedLeads[idx].qualificationCriteria)
                 = Len(ClientFallbackCriteria(leads[idx]))
       ELSE /\ via[idx] \in {"analysis", "retry"}
            /\ processedLeads[idx].score * 2 =
                 (IF fate[idx].resp.body.score.t = "number"
                     /\ ~(via[idx] = "retry" /\ fate[idx].resp.body.score.h = 0)
                  THEN fate[idx].resp.body.score.h ELSE 100)
            /\ processedLeads[idx].qualified =
                 (fate[idx].resp.body.qualified.t = "boolean"
                  /\ fate[idx].resp.body.qualified.b)

\* a run returned in which one lead of a batch failed and its sibling was
\* scored from its answer
C8_Witness ==
  /\ result.returned
  /\ Len(leads) = batchSize
  /\ fate[1].failed /\ via[1] = "rules"
  /\ ~fate[2].failed /\ via[2] = "analysis"

RubricValid ==
  /\ businessSetup.businessDescription >= MinRubricLen
  /\ businessSetup.campaignGoals >= MinRubricLen

\* C9: with a lead that has no id or a rubric field that is too short, no
\* request is sent and no lead is processed.
C9_InvalidInputRejected ==
  ((\E idx \in 1..Len(leads) : leads[idx].id = "") \/ ~RubricValid) =>
    /\ \A r \in Requests : req[r].st = "unsent"
    /\ processedLeads = <<>>
    /\ \A k \in BatchIndexes : tasks[k].st # "settled"

\* C10: processLeads never returns statistics whose averageScore and
\* qualificationRate come from a division by a processed count of 0.
C10_NoDivisionByZero ==
  result.returned =>
    /\ result.stats.averageScore.den # 0
    /\ result.stats.qualificationRate.den # 0

\* the aggregates as they are read off a list of processed leads
RECURSIVE ScoreSumOf(_)
ScoreSumOf(list) ==
  IF list = <<>> THEN 0 ELSE Head(list).score + ScoreSumOf(Tail(list))
QualifiedIn(list) == Cardinality({idx \in 1..Len(list) : list[idx].qualified})

\* C11: the statistics processLeads returns, accumulated batch by batch, are
\* the statistics of the returned list: the counts are those of the list,
\* averageScore is the sum of its scores over its length and
\* qualificationRate is 100 times its qualified entries over its length.
C11_StatsFromList ==
  result.returned =>
    /\ result.stats.totalLeads = Len(result.leads)
    /\ result.stats.processedLeads = Len(result.leads)
    /\ result.stats.qualifiedLeads = QualifiedIn(result.leads)
    /\ result.stats.notQualifiedLeads = Len(result.leads) - QualifiedIn(result.leads)
    /\ result.stats.averageScore.num = ScoreSumOf(result.leads)
    /\ result.stats.averageScore.den = Len(result.leads)
    /\ result.stats.qualificationRate.num = QualifiedIn(result.leads) * 100
    /\ result.stats.qualificationRate.den = Len(result.leads)

\* a run over two batches returned a list with qualified and unqualified
\* entries of different scores
C11_Witness ==
  /\ result.returned
  /\ Len(result.leads) > batchSize
  /\ result.stats.qualifiedLeads = 1
  /\ result.stats.averageScore.num > 100

Validated == answer # NoResponse
ParsedObject == completion.kind = "json" /\ completion.value.t = "object"

\* C12: for a completion that is not JSON, or whose JSON is not an object,
\* the handler answers with its rule-based judgment of the lead, never with
\* a judgment built from the payload.
C12_NonObjectFallsBack ==
  (Validated /\ ~ParsedObject) => answer = ServerFallback(subject)

\* the judgment the handler answered with
AnswerScore == answer.body.score.h \div 2
AnswerQualified == answer.body.qualified.b

OptionalAbsent(lead) == \A f \in (DOMAIN lead) \ {"id"} : lead[f] = ""

BeforeBatchOf(idx) == 1..(((idx - 1) \div batchSize) * batchSize)
Judged == {"analysis", "retry", "rules", "batchCatch"}

\* C16: a request of a lead is dispatched only when every lead of the
\* earlier batches has its judgment, so while a lead waits on its second
\* request no request of a later batch has been sent.
C16_BatchesSequential ==
  /\ \A r \in Requests :
       req[r].st # "unsent" =>
         \A idx \in BeforeBatchOf(r[1]) : idx <= Len(via) /\ via[idx] \in Judged
  /\ \A k \in BatchIndexes :
       tasks[k].st = "wait2" =>
         \A r \in Requests : r[1] > i + batchSize => req[r].st = "unsent"

\* the request of the third lead is out after the first lead was judged from
\* the answer to its second request
C16_Witness ==
  /\ Len(leads) > batchSize
  /\ req[<<batchSize + 1, 1>>].st # "unsent"
  /\ via[1] = "retry"

\* the state the tasks of a run share
sharedVars == <<processedLeads, qualifiedCount, totalScore, totalErrors, processingTimes>>

\* C17: a step that modifies the result list, a counter or the latency
\* samples leaves no task of the current batch pending: the shared state is
\* written after the batch has settled, not from a task next to a pending
\* sibling.
C17_SharedStateAfterBatch ==
  [][sharedVars' # sharedVars => \A k \in BatchIndexes : tasks'[k].st \in {"none", "settled"}]_vars

\* the request the task k waits on, if it waits
AwaitsOpen(k) == Waiting(k) => req[Pending(k)].open
TimerFires(k) == tasks[k].st = "wait1" /\ tasks'[k].st = "wait2"

\* C18: the step in which the 12 s timer of a lead fires leaves the task and
\* the request of its sibling and the position of the run as they are, and
\* the request a task waits on is in flight until the task itself ends the
\* wait.
C18_TimeoutAbortsOneLead ==
  /\ [][\A k \in BatchIndexes :
          TimerFires(k) =>
            /\ pc' = pc /\ i' = i
            /\ \A j \in BatchIndexes \ {k} : tasks'[j] = tasks[j]
            /\ \A r \in Requests : r[1] # i + k + 1 => req'[r] = req[r]]_vars
  /\ [](\A k \in BatchIndexes : AwaitsOpen(k))

\* a run over two batches returned in which the first lead timed out and was
\* judged from its second request, and its sibling from the answer to its
\* first request
C18_Witness ==
  /\ result.returned
  /\ Len(result.leads) > batchSize
  /\ req[<<1, 2>>].st = "closed"
  /\ via[1] = "retry"
  /\ via[2] = "analysis"

\* C19: the handler of a request makes at most 3 calls to the AI service: a
\* call starts only when the handler starts or when the pause after a failed
\* attempt ends, never next to a call it still waits on and never after an
\* answer, and the third failed attempt is followed by the answer, not by a
\* pause and a further call.
C19_AtMostThreeCalls ==
  /\ [](\A r \in Requests :
         /\ req[r].calls <= 3
         /\ req[r].st = "ai" => req[r].calls = req[r].attempts + 1
         /\ req[r].st = "backoff" => req[r].calls = req[r].attempts /\ req[r].attempts < 3)
  /\ [][\A r \in Requests :
          /\ req'[r].calls > req[r].calls =>
               /\ req[r].st \in {"sent", "backoff"}
               /\ req'[r].st = "ai"
               /\ req'[r].calls = req[r].calls + 1
          /\ (req[r].st = "ai" /\ req[r].calls = 3) =>
               req'[r].st \in {"ai", "answered", "closed"}]_vars

\* a handler answered after its third call
C19_Witness ==
  \E r \in Requests :
    /\ req[r].st = "answered"
    /\ req[r].calls = 3
    /\ req[r].resp = ServerFallback(LeadOf(r))

\* C20: one snapshot is reported per completed batch, after its results were
\* appended: the k-th has currentBatch k and processed min(2k, n), total n
\* and totalBatches ceil(n / 2) throughout, and a run that returned has
\* reported ceil(n / 2) snapshots, the last with processed = total and
\* currentBatch = totalBatches.
C20_ProgressPerBatch ==
  LET n == Len(leads)
      batches == (n + 1) \div 2
  IN /\ Len(progress) = i \div 2
     /\ Len(processedLeads) = Min(2 * Len(progress), n)
     /\ \A k \in 1..Len(progress) :
          /\ progress[k].currentBatch = k
          /\ progress[k].processed = Min(2 * k, n)
          /\ progress[k].total = n
          /\ progress[k].totalBatches = batches
          /\ k > 1 => progress[k].processed > progress[k - 1].processed
     /\ result.returned =>
          /\ Len(progress) = batches
          /\ n > 0 => /\ progress[batches].processed = progress[batches].total
                      /\ progress[batches].currentBatch = progress[batches].totalBatches

\* a run over three leads returned after two snapshots, the second for the
\* batch of one lead
C20_Witness ==
  /\ result.returned
  /\ Len(leads) = 3
  /\ Len(progress) = 2
  /\ progress[2].processed = 3

\* C21: whatever the callback, a run whose batches have all been awaited has
\* returned the list of its judgments, one per lead: the callback only
\* observes.
C21_ProgressObservational ==
  pc \notin {"call", "run", "delay"} =>
    /\ result.returned
    /\ result.leads = processedLeads
    /\ Len(result.leads) = Len(leads)

\* C22: the rule-based judgment of a lead is the same whichever layer
\* produced it: the client's and the handler's agree in score, qualified
\* flag and criteria.
C22_FallbackLayersAgree ==
  \A a \in 1..Len(clientRuns), b \in 1..Len(serverRuns) :
    /\ 2 * clientRuns[a].score = serverRuns[b].body.score.h
    /\ clientRuns[a].qualified = serverRuns[b].body.qualified.b
    /\ clientRuns[a].qualificationCriteria = serverRuns[b].body.qualificationCriteria.a

\* the adjustments and labels of the signals of a lead, in the order in
\* which they are examined
Signals(lead) ==
  <<[fired |-> lead.industry = "Technology", adjustment |-> 10,
     label |-> <<"Tech industry">>],
    [fired |-> lead.companySize = "Enterprise", adjustment |-> 15,
     label |-> <<"Enterprise company">>],
    [fired |-> lead.title \in {"CEO", "Director"}, adjustment |-> 20,
     label |-> <<"Senior executive">>],
    [fired |-> lead.phone # "" \/ lead.email # "", adjustment |-> 10,
     label |-> <<"Contact details available">>],
    [fired |-> lead.contactName # "", adjustment |-> 5,
     label |-> <<"Named contact">>]>>
Fired(lead) == {n \in 1..5 : Signals(lead)[n].fired}
RECURSIVE AdjustmentsOf(_, _)
AdjustmentsOf(lead, ns) ==
  IF ns = {} THEN 0
  ELSE LET n == CHOOSE m \in ns : TRUE
       IN Signals(lead)[n].adjustment + AdjustmentsOf(lead, ns \ {n})

\* C23: the client's rule-based judgment has score min(100, 45 + the
\* adjustments of the fired signals), one label per fired signal in the fixed
\* order, and qualified exactly when the returned score is at least 60.
C23_ClientFallbackFormula ==
  \A a \in 1..Len(clientRuns) :
    LET j == clientRuns[a]
        labels == j.qualificationCriteria
    IN /\ j.score = Min(100, 45 + AdjustmentsOf(subject, Fired(subject)))
       /\ Len(labels) = Cardinality(Fired(subject))
       /\ \A n \in Fired(subject) :
            labels[Cardinality({m \in Fired(subject) : m <= n})] = Signals(subject)[n].label
       /\ j.qualified = (j.score >= 60)

\* the client scored a lead with every signal: 105 clamped to 100, five labels
C23_Witness ==
  /\ Len(clientRuns) > 0
  /\ Cardinality(Fired(subject)) = 5
  /\ clientRuns[1].score = 100
  /\ clientRuns[1].qualified

\* C24: the result list only grows at its end, by one entry per lead: an
\* entry that was appended is never changed or replaced, whatever answers
\* arrive later, and the returned list is the list of these entries.
C24_OneJudgmentPerLead ==
  /\ [](/\ Len(processedLeads) <= Len(leads)
        /\ pc \in {"run", "delay"} => Len(processedLeads) = i
        /\ result.returned => result.leads = processedLeads)
  /\ [][/\ Len(processedLeads') >= Len(processedLeads)
        /\ \A idx \in Indexes : processedLeads'[idx] = processedLeads[idx]
        /\ result.returned => result' = result]_vars

\* the first lead has its entry, judged from the answer to its second
\* request, while the handler of its aborted first request is still at work
C24_Witness ==
  /\ Len(processedLeads) > batchSize - 1
  /\ via[1] = "retry"
  /\ req[<<1, 1>>].st \in {"ai", "backoff"}

\* the handler's rule-based answer was the answer the client used for lead idx
HandlerFellBack(idx) == fate[idx] = Fate(FALSE, ServerFallback(leads[idx]))
\* a handler that has called the AI service answers 200 with a judgment
AnswersJudgment ==
  \A r \in Requests :
    (req[r].st = "answered" /\ req[r].calls > 0) =>
      req[r].resp.status = 200 /\ ValidAnalysis(req[r].resp.body)
\* the client takes the handler's rule-based answer as the lead's judgment
FallbackAccepted ==
  \A idx \in Indexes :
    HandlerFellBack(idx) =>
      /\ via[idx] \in {"analysis", "retry"}
      /\ processedLeads[idx].reasoning = ServerFallbackReasoning
      /\ 2 * processedLeads[idx].score = ServerFallback(leads[idx]).body.score.h

Unreachable ==
  {idx \in 1..Len(leads) :
     leads[idx].phone = "" /\ leads[idx].email = "" /\ leads[idx].contactName = ""}
\* no request of such a lead gets to the AI service or is answered with a
\* judgment by the handler
NeverSentToAI ==
  \A idx \in Unreachable : \A n \in 1..2 :
    /\ req[<<idx, n>>].st \notin {"ai", "backoff"}
    /\ req[<<idx, n>>].calls = 0
    /\ req[<<idx, n>>].st = "answered" =>
         \/ req[<<idx, n>>].resp.status \in {400, 429}
         \/ req[<<idx, n>>].resp = Response(200, ErrorBody)

\* C26 as stated: a lead without phone, email and contactName is never sent
\* to the AI service, the run always returns the client's rule-based judgment
\* for it, and no second request is sent for it.
C26_NoContactNoRetry ==
  /\ NeverSentToAI
  /\ \A idx \in Unreachable :
       /\ idx <= Len(processedLeads) => processedLeads[idx] = ClientFallback(leads[idx])
       /\ req[<<idx, 2>>].st = "unsent"

\* C26 as amended: such a lead is never sent to the AI service and its first
\* request never yields a judgment; the run returns the client's rule-based
\* judgment for it unless a second request, sent after the 12 s timer fired,
\* was answered 200 by something other than the handler.
C26_NoContactRuleBased ==
  /\ NeverSentToAI
  /\ \A idx \in Unreachable :
       idx <= Len(processedLeads) =>
         /\ via[idx] # "analysis"
         /\ \/ /\ via[idx] = "rules"
               /\ fate[idx].failed
               /\ processedLeads[idx] = ClientFallback(leads[idx])
            \/ /\ via[idx] = "retry"
               /\ fate[idx] = Fate(FALSE, Response(200, ErrorBody))

\* a run returned with a lead without contact details whose only request
\* had ended before the timer fired
C26_Witness ==
  /\ result.returned
  /\ \E idx \in Unreachable :
       /\ leads[idx].id # ""
       /\ req[<<idx, 1>>].st = "closed"
       /\ req[<<idx, 2>>].st = "unsent"
       /\ result.leads[idx] = ClientFallback(leads[idx])

\* requests of lead idx that were sent and have not ended
Live(idx) == {n \in 1..2 : req[<<idx, n>>].st \notin {"unsent", "closed"}}

HandlerStep(r) ==
  \/ RateLimited(r)
  \/ MalformedAnswer(r)
  \/ HandlerStart(r)
  \/ \E content \in Contents : AIReturns(r, content)
  \/ AIFails(r)
  \/ AITimeout(r)
  \/ BackoffEnds(r)

\* C28: every request gets exactly one response: a request holds a response
\* exactly when it is answered, the status is one the endpoint sends, a
\* request that is not answered yet has a step that leads on, and an answered
\* or ended request has no step left that could answer again.
C28_ExactlyOneResponse ==
  \A r \in Requests :
    /\ (req[r].st = "answered") = (req[r].resp # NoResponse)
    /\ req[r].st = "answered" =>
         /\ req[r].resp.status \in {200, 400, 429, 500}
         /\ req[r].calls > 0 => req[r].resp.status = 200
         /\ (req[r].calls = 0 /\ req[r].resp.status = 200) => req[r].resp.body = ErrorBody
    /\ req[r].st \in {"sent", "ai", "backoff"} => ENABLED HandlerStep(r)
    /\ req[r].st \in {"unsent", "answered", "closed"} => ~ENABLED HandlerStep(r)

\* one request is answered 400 by the validation while another is answered
\* with the handler's rule-based judgment after the third failed call
C28_Witness ==
  \E r, q \in Requests :
    /\ req[r].st = "answered" /\ req[r].resp.status = 400
    /\ req[q].st = "answered" /\ req[q].calls = maxAttempts
    /\ req[q].resp = ServerFallback(LeadOf(q))

\* C29: processLead never rejects: every task settles with success, the
\* catch branch of the task never runs (totalErrors stays 0) and no lead of
\* the list or of the result carries the judgment of that branch.
C29_TaskCatchUnreachable ==
  /\ totalErrors = 0
  /\ \A k \in BatchIndexes :
       tasks[k].st = "settled" =>
         /\ tasks[k].res.success
         /\ tasks[k].res.via \in {"analysis", "retry", "rules"}
  /\ \A idx \in Indexes :
       /\ via[idx] \in {"analysis", "retry", "rules"}
       /\ processedLeads[idx] # BatchCatchLead(leads[idx])
       /\ fate[idx].failed => processedLeads[idx] = ClientFallback(leads[idx])
  /\ result.returned =>
       \A idx \in 1..Len(result.leads) : result.leads[idx] # BatchCatchLead(leads[idx])

\* a run returned in which a lead's second request had failed too, a lead had
\* no id and the error counter is still 0
C29_Witness ==
  /\ result.returned
  /\ totalErrors = 0
  /\ \E idx, jdx \in Indexes :
       /\ fate[idx].failed /\ req[<<idx, 2>>].st = "closed"
       /\ fate[jdx].failed /\ leads[jdx].id = ""

\* C30: the retries figure of every snapshot is 0 (totalRetries is never
\* changed), whatever second requests and repeated AI calls the run had.
C30_RetriesAlwaysZero ==
  /\ totalRetries = 0
  /\ \A n \in 1..Len(progress) : progress[n].retries = 0

\* a snapshot was reported after a batch in which a lead was judged from the
\* answer to its second request, the handler's rule-based judgment after
\* failed calls to the AI service
C30_Witness ==
  /\ Len(progress) > 0
  /\ \E idx \in Indexes :
       /\ idx <= progress[1].processed
       /\ via[idx] = "retry"
       /\ fate[idx] = Fate(FALSE, ServerFallback(leads[idx]))

====
